---- MODULE Spec2Model ----
(***************************************************************************)
(* The /portal setup wizard of portal_handlers.py: three step handlers, a   *)
(* cancel handler and the ConversationHandler that dispatches updates to     *)
(* them.  Python strings are sequences of one-character strings, so that     *)
(* startswith, slicing, int() and the command/regex filters are computed.    *)
(***************************************************************************)
EXTENDS Integers, Sequences, FiniteSets, TLC

(* ------------------------------------------------------------------------ *)
(* Conversation states (range(3)) and ConversationHandler.END               *)
(* ------------------------------------------------------------------------ *)
PORTAL_PUBLIC_CHANNEL == 0
PORTAL_PRIVATE_GROUP == 1
PORTAL_WELCOME_MESSAGE == 2
END == -1

(* Bound: createPortal calls explored per wizard run (the call may raise and *)
(* be repeated, so the counter needs a cap).                                  *)
MaxCreates == 2

(* ------------------------------------------------------------------------ *)
(* Python values                                                            *)
(* ------------------------------------------------------------------------ *)
\* Python's None where a string is expected (no one-character string is "None")
None == <<"None">>

\* bool(s) of an optional string
Truthy(s) == s # None /\ s # <<>>

\* s.startswith(c) for a one-character prefix
StartsWith(s, c) == s # None /\ Len(s) > 0 /\ s[1] = c

Digits == {"0", "1", "2", "3", "4", "5", "6", "7", "8", "9"}

DigitVal(c) ==
  CASE c = "0" -> 0 [] c = "1" -> 1 [] c = "2" -> 2 [] c = "3" -> 3
    [] c = "4" -> 4 [] c = "5" -> 5 [] c = "6" -> 6 [] c = "7" -> 7
    [] c = "8" -> 8 [] c = "9" -> 9

RECURSIVE NatValue(_)
NatValue(s) ==
  IF s = <<>> THEN 0 ELSE 10 * NatValue(SubSeq(s, 1, Len(s) - 1)) + DigitVal(s[Len(s)])

\* int(s) succeeds: an optional sign followed by at least one digit
IsIntLiteral(s) ==
  LET body == IF StartsWith(s, "-") \/ StartsWith(s, "+") THEN Tail(s) ELSE s
  IN  /\ s # None
      /\ Len(body) > 0
      /\ \A i \in 1..Len(body) : body[i] \in Digits

\* int(s) for a literal
IntValue(s) ==
  IF StartsWith(s, "-") THEN 0 - NatValue(Tail(s))
  ELSE IF StartsWith(s, "+") THEN NatValue(Tail(s))
  ELSE NatValue(s)

\* dict helpers: a dict is a function whose DOMAIN is its key set
EmptyDict == [k \in {} |-> TRUE]
HasKey(d, k) == k \in DOMAIN d
DictSet(d, k, v) == [x \in (DOMAIN d) \cup {k} |-> IF x = k THEN v ELSE d[x]]
DictPop(d, k) == [x \in (DOMAIN d) \ {k} |-> d[x]]

(* ------------------------------------------------------------------------ *)
(* The platform: chats, member records, messages                            *)
(* ------------------------------------------------------------------------ *)
NoChat == [id |-> 0, type |-> "none", username |-> None, title |-> "none"]

Chats ==
  { [id |-> -100123, type |-> "channel",    username |-> <<"n">>, title |-> "News"],
    [id |-> -100500, type |-> "supergroup", username |-> None,    title |-> "VIP"],
    [id |-> -200,    type |-> "group",      username |-> <<"g">>, title |-> "Club"] }

Statuses == {"administrator", "creator", "member"}

\* what get_chat_member can return: only an administrator's record carries
\* both values of can_invite_users
MemberRecords ==
  { r \in [status : Statuses, can_invite_users : BOOLEAN] :
      /\ r.status = "creator" => r.can_invite_users
      /\ r.status = "member" => ~r.can_invite_users }

\* message.text values an update can carry (None: a message without text)
TxtCancel == <<"/", "c", "a", "n", "c", "e", "l">>
TxtSkip == <<"/", "s", "k", "i", "p">>
TxtPortalSetup == <<"/", "p", "o", "r", "t", "a", "l", " ", "s", "e", "t", "u", "p">>
TxtSetup == <<"s", "e", "t", "u", "p">>
TxtHandle == <<"@", "n">>
TxtGroupId == <<"-", "2", "0", "0">>
TxtDashWord == <<"-", "x">>
TxtPlain == <<"h", "i">>

Texts == {TxtCancel, TxtSkip, TxtPortalSetup, TxtHandle, TxtGroupId, TxtDashWord, TxtPlain}

\* an incoming message: its text, whether it is a forward (forward_date set),
\* and the chat it was forwarded from (NoChat when forwarded from a user).
\* Forwarded messages are enumerated without text and with an '@' text.
Messages ==
  { m \in [text : Texts \cup {None}, forwarded : BOOLEAN, forward_from_chat : Chats \cup {NoChat}] :
      /\ m.forward_from_chat # NoChat => m.forwarded
      /\ m.forwarded => m.text \in {None, TxtHandle}
      /\ m.forwarded /\ m.forward_from_chat = NoChat => m.text = None }

NoMessage == [text |-> None, forwarded |-> FALSE, forward_from_chat |-> NoChat]

(* ------------------------------------------------------------------------ *)
(* What a handler invocation does: the state it returns (or that it raised), *)
(* the user's user_data afterwards, the platform calls it awaited, the reply *)
(* it sent and the create_portal calls it made.                              *)
(* ------------------------------------------------------------------------ *)
NoMember == [status |-> "none", can_invite_users |-> FALSE]

\* context.bot.get_chat(identifier): identifier is an int (name = None) or "@name"
GetChatCall(id, name, ok, chat) ==
  [op |-> "get_chat", id |-> id, name |-> name, ok |-> ok, chat |-> chat, member |-> NoMember]

\* context.bot.get_chat_member(chat_id, context.bot.id)
GetChatMemberCall(id, ok, member) ==
  [op |-> "get_chat_member", id |-> id, name |-> None, ok |-> ok, chat |-> NoChat, member |-> member]

Outcome(ret, raised, ud, calls, reply, created) ==
  [ret |-> ret, raised |-> raised, ud |-> ud, calls |-> calls, reply |-> reply, created |-> created]

\* the failure is not caught: the exception leaves the handler
M_RepromptRaises(state, ud, calls, reply) == Outcome(state, TRUE, ud, calls, reply, <<>>)

\* a re-prompt that ends the conversation instead of keeping the state
M_Reprompt(state, ud, calls, reply) == Outcome(END, FALSE, ud, calls, reply, <<>>)

\* await message.reply_text(...); return <the handler's own state>
Reprompt(state, ud, calls, reply) == Outcome(state, FALSE, ud, calls, reply, <<>>)

\* an admin check that lets plain members through
M_IsAdmin(member) == member.status \in {"administrator", "creator", "member"}

\* bot_member.status in ['administrator', 'creator']
IsAdmin(member) == member.status \in {"administrator", "creator"}

\* the invite permission is not looked at
M_CanInviteUsers(member) == TRUE

\* bot_member.can_invite_users
CanInviteUsers(member) == member.can_invite_users

\* only private chats are rejected
M_NotAChannel(channel) == channel.type = "private"

\* channel.type != 'channel'
NotAChannel(channel) == channel.type # "channel"

\* any text counts as a handle
M_IsHandleText(message) == Truthy(message.text)

\* message.text and message.text.startswith('@')
IsHandleText(message) == Truthy(message.text) /\ StartsWith(message.text, "@")

(* ------------------------------------------------------------------------ *)
(* portal_setup_start                                                       *)
(* ------------------------------------------------------------------------ *)
portal_setup_start(message, ud) ==
  { Outcome(PORTAL_PUBLIC_CHANNEL, FALSE, ud, <<>>, "wizard_step_1", <<>>) }

(* ------------------------------------------------------------------------ *)
(* portal_public_channel (Step 1)                                           *)
(* ------------------------------------------------------------------------ *)
\* the dict stored under 'portal_setup' by a successful channel step
ChannelDraft(id, username, title) ==
  [public_channel_id |-> id, public_channel_username |-> username, public_channel_title |-> title]

\* branch 1: the message is forwarded from a channel
PublicChannelForwarded(message, ud) ==
  LET channel == message.forward_from_chat
  IN  \* get_chat_member raised
      { Reprompt(PORTAL_PUBLIC_CHANNEL, ud,
                <<GetChatMemberCall(channel.id, FALSE, NoMember)>>, "verify_failed") }
      \cup
      { IF ~IsAdmin(bot_member)
          THEN Reprompt(PORTAL_PUBLIC_CHANNEL, ud,
                       <<GetChatMemberCall(channel.id, TRUE, bot_member)>>, "not_admin")
          ELSE Outcome(PORTAL_PRIVATE_GROUP, FALSE,
                       DictSet(ud, "portal_setup",
                               ChannelDraft(channel.id, channel.username, channel.title)),
                       <<GetChatMemberCall(channel.id, TRUE, bot_member)>>,
                       "channel_verified", <<>>)
        : bot_member \in MemberRecords }

\* branch 2: the text starts with '@'
PublicChannelHandle(message, ud) ==
  LET channel_username == Tail(message.text)
      lookup == <<"@">> \o channel_username
  IN  \* get_chat raised
      { Reprompt(PORTAL_PUBLIC_CHANNEL, ud,
                <<GetChatCall(0, lookup, FALSE, NoChat)>>, "channel_not_found") }
      \cup
      UNION {
        LET found == GetChatCall(0, lookup, TRUE, channel)
        IN  IF NotAChannel(channel)
              THEN { Reprompt(PORTAL_PUBLIC_CHANNEL, ud, <<found>>, "not_channel") }
              ELSE \* get_chat_member raised: same except clause
                   { Reprompt(PORTAL_PUBLIC_CHANNEL, ud,
                             <<found, GetChatMemberCall(channel.id, FALSE, NoMember)>>,
                             "channel_not_found") }
                   \cup
                   { IF ~IsAdmin(bot_member)
                       THEN Reprompt(PORTAL_PUBLIC_CHANNEL, ud,
                                    <<found, GetChatMemberCall(channel.id, TRUE, bot_member)>>,
                                    "not_admin")
                       ELSE Outcome(PORTAL_PRIVATE_GROUP, FALSE,
                                    DictSet(ud, "portal_setup",
                                            ChannelDraft(channel.id, channel_username, channel.title)),
                                    <<found, GetChatMemberCall(channel.id, TRUE, bot_member)>>,
                                    "channel_verified", <<>>)
                     : bot_member \in MemberRecords }
        : channel \in Chats }

portal_public_channel(message, ud) ==
  IF message.forward_from_chat # NoChat /\ message.forward_from_chat.type = "channel"
    THEN PublicChannelForwarded(message, ud)
  ELSE IF IsHandleText(message)
    THEN PublicChannelHandle(message, ud)
  ELSE { Reprompt(PORTAL_PUBLIC_CHANNEL, ud, <<>>, "invalid_input") }

(* ------------------------------------------------------------------------ *)
(* portal_private_group (Step 2)                                            *)
(* ------------------------------------------------------------------------ *)
\* channels pass as groups
M_IsGroupType(type) == type \in {"group", "supergroup", "channel"}

\* type in ['group', 'supergroup']
IsGroupType(type) == type \in {"group", "supergroup"}

\* context.user_data['portal_setup']['private_group_id'] = ...; [...]['private_group_title'] = ...
\* (only evaluated when user_data has 'portal_setup'; a missing key is a KeyError)
StoreGroup(ud, id, title) ==
  DictSet(ud, "portal_setup",
          DictSet(DictSet(ud["portal_setup"], "private_group_id", id),
                  "private_group_title", title))

\* branch 1: the message is forwarded from a group or supergroup
PrivateGroupForwarded(message, ud) ==
  LET group == message.forward_from_chat
  IN  { Reprompt(PORTAL_PRIVATE_GROUP, ud,
                <<GetChatMemberCall(group.id, FALSE, NoMember)>>, "verify_failed") }
      \cup
      { LET calls == <<GetChatMemberCall(group.id, TRUE, bot_member)>>
        IN  IF ~IsAdmin(bot_member)
              THEN Reprompt(PORTAL_PRIVATE_GROUP, ud, calls, "not_admin")
            ELSE IF ~CanInviteUsers(bot_member)
              THEN Reprompt(PORTAL_PRIVATE_GROUP, ud, calls, "no_invite_permission")
            ELSE IF ~HasKey(ud, "portal_setup")
              \* the store is outside the try block: the KeyError leaves the handler
              THEN Outcome(PORTAL_PRIVATE_GROUP, TRUE, ud, calls, "none", <<>>)
            ELSE Outcome(PORTAL_WELCOME_MESSAGE, FALSE,
                         StoreGroup(ud, group.id, group.title), calls, "group_verified", <<>>)
        : bot_member \in MemberRecords }

\* the group identifier of the text branch: the text without a leading '@'
GroupIdentifier(text) == IF StartsWith(text, "@") THEN Tail(text) ELSE text

\* branch 2: a text (username or numeric id)
PrivateGroupText(message, ud) ==
  LET group_identifier == GroupIdentifier(message.text)
      byId == StartsWith(group_identifier, "-")
      failed == "group_not_found"
  IN  IF byId /\ ~IsIntLiteral(group_identifier)
        \* int(group_identifier) raises ValueError, caught by the except clause
        THEN { Reprompt(PORTAL_PRIVATE_GROUP, ud, <<>>, failed) }
      ELSE
        LET id == IF byId THEN IntValue(group_identifier) ELSE 0
            name == IF byId THEN None ELSE <<"@">> \o group_identifier
        IN  { Reprompt(PORTAL_PRIVATE_GROUP, ud,
                      <<GetChatCall(id, name, FALSE, NoChat)>>, failed) }
            \cup
            UNION {
              LET found == GetChatCall(id, name, TRUE, group)
              IN  IF ~IsGroupType(group.type)
                    THEN { Reprompt(PORTAL_PRIVATE_GROUP, ud, <<found>>, "not_group") }
                    ELSE { Reprompt(PORTAL_PRIVATE_GROUP, ud,
                                   <<found, GetChatMemberCall(group.id, FALSE, NoMember)>>,
                                   failed) }
                         \cup
                         { LET calls == <<found, GetChatMemberCall(group.id, TRUE, bot_member)>>
                           IN  IF ~IsAdmin(bot_member)
                                 THEN Reprompt(PORTAL_PRIVATE_GROUP, ud, calls, "not_admin")
                               ELSE IF ~CanInviteUsers(bot_member)
                                 THEN Reprompt(PORTAL_PRIVATE_GROUP, ud, calls,
                                              "no_invite_permission")
                               ELSE IF ~HasKey(ud, "portal_setup")
                                 \* the store is inside the try block: the KeyError is caught
                                 THEN Reprompt(PORTAL_PRIVATE_GROUP, ud, calls, failed)
                               ELSE Outcome(PORTAL_WELCOME_MESSAGE, FALSE,
                                            StoreGroup(ud, group.id, group.title), calls,
                                            "group_verified", <<>>)
                           : bot_member \in MemberRecords }
              : group \in Chats }

portal_private_group(message, ud) ==
  IF message.forward_from_chat # NoChat /\ IsGroupType(message.forward_from_chat.type)
    THEN PrivateGroupForwarded(message, ud)
  ELSE IF Truthy(message.text)
    THEN PrivateGroupText(message, ud)
  ELSE { Reprompt(PORTAL_PRIVATE_GROUP, ud, <<>>, "invalid_input") }

(* ------------------------------------------------------------------------ *)
(* portal_welcome_message (Step 3)                                          *)
(* ------------------------------------------------------------------------ *)
\* what portal_service.create_portal can return: a portal id or None
PortalIds == {"pid_42"}
NoPortal == "None"

\* every command text counts as a skip
M_WelcomeOverride(text) == IF StartsWith(text, "/") THEN None ELSE text

\* the welcome override: None for the literal '/skip', else the text
WelcomeOverride(text) == IF Truthy(text) /\ text = TxtSkip THEN None ELSE text

\* the draft is never found missing
M_SetupDataLost(setup_data) == FALSE

\* not setup_data
SetupDataLost(setup_data) == DOMAIN setup_data = {}

\* the keyword arguments of one create_portal call, with how the call ended
CreatePortalCall(owner_id, setup_data, welcome_message, raised, result) ==
  [owner_id |-> owner_id,
   public_channel_id |-> setup_data["public_channel_id"],
   public_channel_username |-> setup_data["public_channel_username"],
   private_group_id |-> setup_data["private_group_id"],
   private_group_title |-> setup_data["private_group_title"],
   welcome_message |-> welcome_message,
   raised |-> raised,
   result |-> result]

CreatePortalKeys ==
  {"public_channel_id", "public_channel_username", "private_group_id", "private_group_title"}

portal_welcome_message(message, ud, owner_id, portal_service) ==
  LET setup_data == IF HasKey(ud, "portal_setup") THEN ud["portal_setup"] ELSE EmptyDict
      welcome_message == WelcomeOverride(message.text)
  IN  IF SetupDataLost(setup_data)
        THEN { Outcome(END, FALSE, ud, <<>>, "setup_data_lost", <<>>) }
      ELSE IF ~portal_service
        THEN { Outcome(END, FALSE, ud, <<>>, "service_unavailable", <<>>) }
      ELSE IF ~(CreatePortalKeys \subseteq DOMAIN setup_data)
        \* KeyError while the arguments are evaluated: nothing is called
        THEN { Outcome(PORTAL_WELCOME_MESSAGE, TRUE, ud, <<>>, "none", <<>>) }
      ELSE
        \* create_portal raised: the exception leaves the handler
        { Outcome(PORTAL_WELCOME_MESSAGE, TRUE, ud, <<>>, "none",
                  <<CreatePortalCall(owner_id, setup_data, welcome_message, TRUE, NoPortal)>>) }
        \cup
        { Outcome(END, FALSE, DictPop(ud, "portal_setup"), <<>>,
                  IF portal_id # NoPortal THEN "portal_created" ELSE "portal_failed",
                  <<CreatePortalCall(owner_id, setup_data, welcome_message, FALSE, portal_id)>>)
          : portal_id \in PortalIds \cup {NoPortal} }

(* ------------------------------------------------------------------------ *)
(* portal_cancel                                                            *)
(* ------------------------------------------------------------------------ *)
portal_cancel(message, ud) ==
  { Outcome(END, FALSE, DictPop(ud, "portal_setup"), <<>>, "cancelled", <<>>) }

(* ------------------------------------------------------------------------ *)
(* create_portal_conversation_handler: which handler an update reaches      *)
(* ------------------------------------------------------------------------ *)
\* filters.TEXT: the message has text (command text included)
FilterText(message) == Truthy(message.text)

\* filters.FORWARDED
FilterForwarded(message) == message.forwarded

\* filters.Regex('^setup$'): re.search on message.text
FilterRegexSetup(message) ==
  /\ Truthy(message.text)
  /\ message.text \in {TxtSetup, TxtSetup \o <<"\n">>}

\* index of the first space of s, or Len(s) + 1
RECURSIVE FirstSpace(_, _)
FirstSpace(s, i) == IF i > Len(s) \/ s[i] = " " THEN i ELSE FirstSpace(s, i + 1)

\* CommandHandler(command, ...): the text starts with '/', and the word after it is command
IsCommand(message, command) ==
  /\ Truthy(message.text)
  /\ StartsWith(message.text, "/")
  /\ SubSeq(message.text, 2, FirstSpace(message.text, 1) - 1) = command

WordPortal == <<"p", "o", "r", "t", "a", "l">>
WordSkip == <<"s", "k", "i", "p">>
WordCancel == <<"c", "a", "n", "c", "e", "l">>

\* entry_points=[CommandHandler('portal', portal_setup_start, filters.Regex('^setup$'))]
EntryPointMatches(message) == IsCommand(message, WordPortal) /\ FilterRegexSetup(message)

\* fallbacks=[CommandHandler('cancel', portal_cancel)]
FallbackHandler(message) == IF IsCommand(message, WordCancel) THEN "portal_cancel" ELSE "none"

\* the handler lists of the first two states are registered the wrong way round
M_StateHandler(state, message) ==
  IF state = PORTAL_PUBLIC_CHANNEL
    THEN IF FilterText(message) \/ FilterForwarded(message)
           THEN "portal_private_group" ELSE FallbackHandler(message)
  ELSE IF state = PORTAL_PRIVATE_GROUP
    THEN IF FilterText(message) \/ FilterForwarded(message)
           THEN "portal_public_channel" ELSE FallbackHandler(message)
  ELSE IF FilterText(message) \/ IsCommand(message, WordSkip)
         THEN "portal_welcome_message" ELSE FallbackHandler(message)

\* states={...}: the first handler of the state's list whose filter accepts the
\* message, else the fallbacks
StateHandler(state, message) ==
  IF state = PORTAL_PUBLIC_CHANNEL
    THEN IF FilterText(message) \/ FilterForwarded(message)
           THEN "portal_public_channel" ELSE FallbackHandler(message)
  ELSE IF state = PORTAL_PRIVATE_GROUP
    THEN IF FilterText(message) \/ FilterForwarded(message)
           THEN "portal_private_group" ELSE FallbackHandler(message)
  ELSE IF FilterText(message) \/ IsCommand(message, WordSkip)
         THEN "portal_welcome_message" ELSE FallbackHandler(message)

\* ConversationHandler.check_update: entry points when no conversation is
\* active for the key, else the state's handlers and the fallbacks
SelectHandler(state, message) ==
  IF state = END
    THEN IF EntryPointMatches(message) THEN "portal_setup_start" ELSE "none"
    ELSE StateHandler(state, message)

\* the callback invocation
RunHandler(handler, state, message, ud, owner_id, portal_service) ==
  CASE handler = "portal_setup_start" -> portal_setup_start(message, ud)
    [] handler = "portal_public_channel" -> portal_public_channel(message, ud)
    [] handler = "portal_private_group" -> portal_private_group(message, ud)
    [] handler = "portal_welcome_message" ->
         portal_welcome_message(message, ud, owner_id, portal_service)
    [] handler = "portal_cancel" -> portal_cancel(message, ud)
    [] OTHER -> { Outcome(state, FALSE, ud, <<>>, "none", <<>>) }

(* ------------------------------------------------------------------------ *)
(* State                                                                    *)
(* ------------------------------------------------------------------------ *)
Users == {11, 22}

\* conversation keys (chat id, user id): per_chat and per_user are the defaults.
\* User 11 talks to the bot in a private chat and in a group chat, user 22 in
\* a private chat.
ConvKeys == {<<11, 11>>, <<-200, 11>>, <<22, 22>>}

\* the keys that receive updates: one user in two chats (Spec), two users in
\* one chat each (SpecUsers)
OneUserKeys == {<<11, 11>>, <<-200, 11>>}
TwoUserKeys == {<<11, 11>>, <<22, 22>>}

\* every update of any conversation reads one and the same user_data
M_DraftOwner(key) == 11

\* the user whose user_data the callback's context exposes
DraftOwner(key) == key[2]

VARIABLES
  conv,        \* ConversationHandler's state per key (END: no conversation)
  user_data,   \* context.user_data per user: a dict that may hold 'portal_setup'
  bot_data,    \* whether context.bot_data holds a 'portal_service'
  creates,     \* create_portal calls of the key's current wizard run
  verified,    \* chat ids whose checks passed in the key's current wizard run
  last         \* the update handled last: handler chosen, calls, reply, result

vars == <<conv, user_data, bot_data, creates, verified, last>>

\* no check has passed yet (0 is no chat id)
NoneVerified == [channel |-> 0, group |-> 0]

\* the ids verified in the run after a callback with outcome o: a verified
\* channel step starts the record, a verified group step completes it, and
\* the end of the conversation clears it
VerifiedAfter(v, o) ==
  IF o.raised THEN v
  ELSE IF o.ret = END THEN NoneVerified
  ELSE IF o.reply = "channel_verified"
    THEN [channel |-> o.calls[Len(o.calls)].id, group |-> 0]
  ELSE IF o.reply = "group_verified"
    THEN [v EXCEPT !.group = o.calls[Len(o.calls)].id]
  ELSE v

Event(key, via, message, handler, before, o) ==
  [key |-> key, via |-> via, message |-> message, handler |-> handler, before |-> before,
   raised |-> o.raised, calls |-> o.calls, reply |-> o.reply, created |-> o.created]

Init ==
  /\ conv = [k \in ConvKeys |-> END]
  /\ user_data = [u \in Users |-> EmptyDict]
  /\ bot_data \in BOOLEAN
  /\ creates = [k \in ConvKeys |-> 0]
  /\ verified = [k \in ConvKeys |-> NoneVerified]
  /\ last = Event(<<0, 0>>, "init", NoMessage, "none", END,
                  Outcome(END, FALSE, EmptyDict, <<>>, "none", <<>>))

\* ConversationHandler.handle_update for one update of the key: the chosen
\* callback runs, its return value becomes the key's state (an exception
\* leaves the state as it was)
HandleUpdate(key, message) ==
  LET user == DraftOwner(key)
      handler == SelectHandler(conv[key], message)
  IN  \E o \in RunHandler(handler, conv[key], message, user_data[user], key[2], bot_data) :
        /\ o.created # <<>> => creates[key] < MaxCreates
        /\ conv' = [conv EXCEPT ![key] = IF o.raised THEN @ ELSE o.ret]
        /\ user_data' = [user_data EXCEPT ![user] = o.ud]
        /\ creates' = [creates EXCEPT ![key] = @ + Len(o.created)]
        /\ verified' = [verified EXCEPT ![key] = VerifiedAfter(@, o)]
        /\ last' = Event(key, "dispatch", message, handler, conv[key], o)
        /\ UNCHANGED bot_data

\* an update while no conversation is active for the key
UpdateIdle(key) ==
  /\ conv[key] = END
  /\ \E message \in Messages : HandleUpdate(key, message)

UpdateChannel(key) ==
  /\ conv[key] = PORTAL_PUBLIC_CHANNEL
  /\ \E message \in Messages : HandleUpdate(key, message)

UpdateGroup(key) ==
  /\ conv[key] = PORTAL_PRIVATE_GROUP
  /\ \E message \in Messages : HandleUpdate(key, message)

UpdateWelcome(key) ==
  /\ conv[key] = PORTAL_WELCOME_MESSAGE
  /\ \E message \in Messages : HandleUpdate(key, message)

\* portal_setup_start run as the entry callback: the callback reads nothing
\* of the update, replies and returns PORTAL_PUBLIC_CHANNEL.  Which updates
\* the registered entry point lets through is EntryPointMatches.
StartWizard(key) ==
  /\ conv[key] = END
  /\ \E o \in portal_setup_start(NoMessage, user_data[DraftOwner(key)]) :
       /\ conv' = [conv EXCEPT ![key] = o.ret]
       /\ user_data' = [user_data EXCEPT ![DraftOwner(key)] = o.ud]
       /\ creates' = [creates EXCEPT ![key] = 0]
       /\ verified' = [verified EXCEPT ![key] = NoneVerified]
       /\ last' = Event(key, "callback", NoMessage, "portal_setup_start", END, o)
       /\ UNCHANGED bot_data

Next ==
  \E key \in OneUserKeys :
    \/ StartWizard(key)
    \/ UpdateIdle(key)
    \/ UpdateChannel(key)
    \/ UpdateGroup(key)
    \/ UpdateWelcome(key)

Spec == Init /\ [][Next]_vars

\* two users, each in their own private chat
NextUsers ==
  \E key \in TwoUserKeys :
    \/ StartWizard(key)
    \/ UpdateIdle(key)
    \/ UpdateChannel(key)
    \/ UpdateGroup(key)
    \/ UpdateWelcome(key)

SpecUsers == Init /\ [][NextUsers]_vars

(* ------------------------------------------------------------------------ *)
(* Properties                                                               *)
(* ------------------------------------------------------------------------ *)
WizardStates == {PORTAL_PUBLIC_CHANNEL, PORTAL_PRIVATE_GROUP, PORTAL_WELCOME_MESSAGE}

\* the event recorded in e is an update dispatched while the key was in state
DispatchedIn(e, state) == e.via = "dispatch" /\ e.before = state

\* the draft of the user of event e, in user_data ud
HasDraft(ud, e) == HasKey(ud[e.key[2]], "portal_setup")
DraftOf(ud, e) == ud[e.key[2]]["portal_setup"]

ForwardedFromChannel(message) ==
  message.forward_from_chat # NoChat /\ message.forward_from_chat.type = "channel"

ForwardedFromGroup(message) ==
  message.forward_from_chat # NoChat
    /\ message.forward_from_chat.type \in {"group", "supergroup"}

\* the text begins with '@'
BeginsWithAt(text) == text # None /\ Len(text) > 0 /\ text[1] = "@"

\* the member record says administrator or creator
AdminStatus(member) == member.status = "administrator" \/ member.status = "creator"

\* the member record the event's get_chat_member call returned, if it returned
MemberAnswers(e) ==
  { e.calls[i].member : i \in { j \in 1..Len(e.calls) :
                                   e.calls[j].op = "get_chat_member" /\ e.calls[j].ok } }

\* the event's last platform call is a get_chat_member for chat id that
\* returned a record satisfying Ok
CheckPassedFor(e, id, Ok(_)) ==
  /\ Len(e.calls) > 0
  /\ LET c == e.calls[Len(e.calls)]
     IN  c.op = "get_chat_member" /\ c.ok /\ c.id = id /\ Ok(c.member)

\* C1: in each of the three wizard states, a '/cancel' update is handled by
\* portal_cancel, the draft is removed, the conversation ends and no portal
\* is created by the update.
C1_CancelEndsWizard ==
  (last.via = "dispatch" /\ last.before \in WizardStates /\ last.message.text = TxtCancel)
    => /\ last.handler = "portal_cancel"
       /\ ~HasDraft(user_data, last)
       /\ conv[last.key] = END
       /\ last.created = <<>>

\* C2: whenever an update takes the conversation to END, by whatever path,
\* user_data holds no draft.
C2_NoDraftAtEnd ==
  (last.via = "dispatch" /\ last.before \in WizardStates /\ conv[last.key] = END)
    => ~HasDraft(user_data, last)

\* C3: in PORTAL_PUBLIC_CHANNEL an input that is neither forwarded from a
\* channel nor a text starting with '@' keeps the state, makes no platform
\* call and leaves user_data as it was.
C3_OtherInputReprompts ==
  [][ ( /\ DispatchedIn(last', PORTAL_PUBLIC_CHANNEL)
        /\ ~ForwardedFromChannel(last'.message)
        /\ ~BeginsWithAt(last'.message.text) )
      => /\ conv'[last'.key] = PORTAL_PUBLIC_CHANNEL
         /\ ~last'.raised
         /\ last'.calls = <<>>
         /\ user_data' = user_data ]_vars

C3_Witness ==
  /\ DispatchedIn(last, PORTAL_PUBLIC_CHANNEL)
  /\ last.handler = "portal_public_channel"
  /\ last.message.text = TxtPlain
  /\ last.reply = "invalid_input"
  /\ conv[last.key] = PORTAL_PUBLIC_CHANNEL

\* C4: in PORTAL_PUBLIC_CHANNEL, in both branches, a member status other than
\* administrator/creator keeps the state and writes nothing; the state advances
\* and user_data changes only after the admin check passed for the chat whose
\* id is stored.
C4_ChannelNeedsAdmin ==
  [][ DispatchedIn(last', PORTAL_PUBLIC_CHANNEL)
      => /\ (\E member \in MemberAnswers(last') : ~AdminStatus(member))
              => /\ conv'[last'.key] = PORTAL_PUBLIC_CHANNEL
                 /\ user_data' = user_data
         /\ (conv'[last'.key] # PORTAL_PUBLIC_CHANNEL \/ user_data' # user_data)
              => /\ conv'[last'.key] = PORTAL_PRIVATE_GROUP
                 /\ HasDraft(user_data', last')
                 /\ CheckPassedFor(last', DraftOf(user_data', last')["public_channel_id"], AdminStatus) ]_vars

C4_Witness ==
  /\ DispatchedIn(last, PORTAL_PUBLIC_CHANNEL)
  /\ last.message.text = TxtHandle
  /\ Len(last.calls) = 2
  /\ last.calls[2].ok /\ last.calls[2].member.status = "member"
  /\ last.reply = "not_admin"
  /\ conv[last.key] = PORTAL_PUBLIC_CHANNEL
  /\ ~HasDraft(user_data, last)

\* C5: in PORTAL_PRIVATE_GROUP, in both branches, the group fields are written
\* and the state advances to PORTAL_WELCOME_MESSAGE only if the bot is
\* administrator/creator in that group and can_invite_users is true; with a
\* non-admin status, or admin without can_invite_users, the state stays and
\* user_data is as it was.
AdminWithInvite(member) == AdminStatus(member) /\ member.can_invite_users

C5_GroupNeedsAdminAndInvite ==
  [][ DispatchedIn(last', PORTAL_PRIVATE_GROUP)
      => /\ (\E member \in MemberAnswers(last') : ~AdminWithInvite(member))
              => /\ conv'[last'.key] = PORTAL_PRIVATE_GROUP
                 /\ user_data' = user_data
         /\ (conv'[last'.key] # PORTAL_PRIVATE_GROUP \/ user_data' # user_data)
              => /\ conv'[last'.key] = PORTAL_WELCOME_MESSAGE
                 /\ HasDraft(user_data', last')
                 /\ HasKey(DraftOf(user_data', last'), "private_group_id")
                 /\ CheckPassedFor(last', DraftOf(user_data', last')["private_group_id"],
                                   AdminWithInvite) ]_vars

C5_Witness ==
  /\ DispatchedIn(last, PORTAL_PRIVATE_GROUP)
  /\ ForwardedFromGroup(last.message)
  /\ Len(last.calls) = 1
  /\ last.calls[1].ok
  /\ last.calls[1].member = [status |-> "administrator", can_invite_users |-> FALSE]
  /\ last.reply = "no_invite_permission"
  /\ conv[last.key] = PORTAL_PRIVATE_GROUP
  /\ HasDraft(user_data, last)
  /\ ~HasKey(DraftOf(user_data, last), "private_group_id")

\* C6: the welcome_message passed to create_portal is None exactly when the
\* text is the literal '/skip'; for every other text it is that text.
C6_WelcomeOverride ==
  (last.via = "dispatch" /\ last.handler = "portal_welcome_message" /\ last.created # <<>>)
    => LET passed == last.created[1].welcome_message
           text == last.message.text
       IN  /\ text # None
           /\ (passed = None) <=> (text = TxtSkip)
           /\ text # TxtSkip => passed = text

C6_Witness ==
  /\ DispatchedIn(last, PORTAL_WELCOME_MESSAGE)
  /\ last.message.text = TxtSkip
  /\ Len(last.created) = 1
  /\ last.created[1].welcome_message = None

\* C7: the welcome step run while user_data holds no (or an empty) draft ends
\* the conversation without calling create_portal, with or without a service.
C7_LostDraftEnds ==
  [][ ( /\ DispatchedIn(last', PORTAL_WELCOME_MESSAGE)
        /\ last'.handler = "portal_welcome_message"
        /\ (~HasDraft(user_data, last') \/ DOMAIN DraftOf(user_data, last') = {}) )
      => /\ conv'[last'.key] = END
         /\ ~last'.raised
         /\ last'.created = <<>>
         /\ last'.reply = "setup_data_lost" ]_vars

C7_Witness ==
  /\ DispatchedIn(last, PORTAL_WELCOME_MESSAGE)
  /\ last.handler = "portal_welcome_message"
  /\ last.reply = "setup_data_lost"
  /\ last.created = <<>>
  /\ bot_data
  /\ conv[last.key] = END

\* C8: the welcome step run with a draft and a service calls create_portal
\* exactly once with the draft's channel id, channel username, group id and
\* group title; when the call returns, the draft is gone and the conversation
\* has ended; a wizard run calls create_portal at most once.
C8_CreateOncePerRun ==
  [][ ( /\ DispatchedIn(last', PORTAL_WELCOME_MESSAGE)
        /\ last'.handler = "portal_welcome_message"
        /\ HasDraft(user_data, last')
        /\ bot_data )
      => /\ Len(last'.created) = 1
         /\ LET call == last'.created[1]
                draft == DraftOf(user_data, last')
            IN  /\ call.public_channel_id = draft["public_channel_id"]
                /\ call.public_channel_username = draft["public_channel_username"]
                /\ call.private_group_id = draft["private_group_id"]
                /\ call.private_group_title = draft["private_group_title"]
                /\ ~call.raised => (~HasDraft(user_data', last') /\ conv'[last'.key] = END)
         /\ creates'[last'.key] <= 1 ]_vars

\* C9: which error replies end the conversation
InputErrors ==
  { "invalid_input", "channel_not_found", "group_not_found", "verify_failed",
    "not_channel", "not_group", "not_admin", "no_invite_permission" }

ErrorReplies == InputErrors \cup {"setup_data_lost", "service_unavailable", "portal_failed"}

\* C9 as stated: only a lost draft and a missing service end the conversation;
\* every other error, a failed portal creation included, keeps the state.
C9_OnlyLostAndUnavailableEnd ==
  (last.via = "dispatch" /\ last.before \in WizardStates /\ last.reply \in ErrorReplies)
    => IF last.reply \in {"setup_data_lost", "service_unavailable"}
         THEN conv[last.key] = END
         ELSE conv[last.key] = last.before

\* C9 amended: a lost draft, a missing service and a failed portal creation
\* (create_portal returning no id) end the conversation; every other error
\* keeps the conversation in the state it was in.
C9_ErrorsThatEnd ==
  (last.via = "dispatch" /\ last.before \in WizardStates /\ last.reply \in ErrorReplies)
    => IF last.reply \in {"setup_data_lost", "service_unavailable", "portal_failed"}
         THEN conv[last.key] = END
         ELSE conv[last.key] = last.before

C9_Witness ==
  /\ DispatchedIn(last, PORTAL_WELCOME_MESSAGE)
  /\ last.reply = "portal_failed"
  /\ Len(last.created) = 1
  /\ last.created[1].result = NoPortal
  /\ conv[last.key] = END

\* C10: in PORTAL_PUBLIC_CHANNEL an '@handle' whose get_chat returns a channel
\* and whose get_chat_member returns administrator/creator stores that chat's
\* id and title and moves to PORTAL_PRIVATE_GROUP; when get_chat returns a
\* chat of another type the state stays and user_data is as it was.
C10_HandleResolvesChannel ==
  [][ ( /\ DispatchedIn(last', PORTAL_PUBLIC_CHANNEL)
        /\ ~ForwardedFromChannel(last'.message)
        /\ BeginsWithAt(last'.message.text)
        /\ Len(last'.calls) >= 1
        /\ last'.calls[1].ok )
      => LET lookup == last'.calls[1]
         IN  /\ lookup.op = "get_chat" /\ lookup.name = last'.message.text
             /\ ( /\ lookup.chat.type = "channel"
                  /\ Len(last'.calls) = 2
                  /\ last'.calls[2].ok
                  /\ AdminStatus(last'.calls[2].member) )
                  => /\ last'.calls[2].op = "get_chat_member"
                     /\ last'.calls[2].id = lookup.chat.id
                     /\ conv'[last'.key] = PORTAL_PRIVATE_GROUP
                     /\ HasDraft(user_data', last')
                     /\ DraftOf(user_data', last')["public_channel_id"] = lookup.chat.id
                     /\ DraftOf(user_data', last')["public_channel_title"] = lookup.chat.title
             /\ lookup.chat.type # "channel"
                  => /\ conv'[last'.key] = PORTAL_PUBLIC_CHANNEL
                     /\ user_data' = user_data ]_vars

C10_Witness ==
  /\ DispatchedIn(last, PORTAL_PUBLIC_CHANNEL)
  /\ last.message.text = TxtHandle
  /\ ~last.message.forwarded
  /\ Len(last.calls) = 2
  /\ last.calls[1].chat.id = -100123 /\ last.calls[1].chat.type = "channel"
  /\ last.calls[2].member.status = "administrator"
  /\ conv[last.key] = PORTAL_PRIVATE_GROUP
  /\ HasDraft(user_data, last)
  /\ DraftOf(user_data, last)["public_channel_id"] = -100123

\* C11: with no conversation active, '/portal setup' enters the wizard
\* (the state becomes PORTAL_PUBLIC_CHANNEL) and no other update does.
C11_PortalSetupEnters ==
  (last.via = "dispatch" /\ last.before = END)
    => IF last.message.text = TxtPortalSetup
         THEN conv[last.key] = PORTAL_PUBLIC_CHANNEL
         ELSE conv[last.key] = END

\* the other conversations of the event's user
OtherKeysOfUser(e) == { k \in ConvKeys : k[2] = e.key[2] /\ k # e.key }

\* C12: when a run starts (portal_setup_start has returned
\* PORTAL_PUBLIC_CHANNEL) and the user has no other conversation running,
\* user_data holds no draft left by an earlier run.
C12_NoDraftAtStart ==
  ( /\ last.handler = "portal_setup_start"
    /\ conv[last.key] = PORTAL_PUBLIC_CHANNEL
    /\ \A k \in OtherKeysOfUser(last) : conv[k] = END )
    => ~HasDraft(user_data, last)

\* the text, without a leading '@', begins with '-' and is no number
DashButNoNumber(text) ==
  /\ text # None
  /\ LET t == IF BeginsWithAt(text) THEN SubSeq(text, 2, Len(text)) ELSE text
     IN  /\ Len(t) > 0 /\ t[1] = "-"
         /\ \/ Len(t) = 1
            \/ \E i \in 2..Len(t) : t[i] \notin {"0", "1", "2", "3", "4", "5", "6", "7", "8", "9"}

\* the positions of the event's platform calls that failed
FailedCalls(e) == { i \in 1..Len(e.calls) : ~e.calls[i].ok }

\* C13: in PORTAL_PUBLIC_CHANNEL and PORTAL_PRIVATE_GROUP a failed get_chat or
\* get_chat_member, and in the group step a '-' text that is no number, is
\* caught: the state stays, user_data is as it was, and no platform call
\* follows the failure (none at all for the text that is no number).
C13_LookupFailureReprompts ==
  [][ ( /\ last'.via = "dispatch"
        /\ last'.before \in {PORTAL_PUBLIC_CHANNEL, PORTAL_PRIVATE_GROUP} )
      => /\ FailedCalls(last') # {}
              => /\ FailedCalls(last') = {Len(last'.calls)}
                 /\ ~last'.raised
                 /\ conv'[last'.key] = last'.before
                 /\ user_data' = user_data
         /\ ( /\ last'.before = PORTAL_PRIVATE_GROUP
              /\ ~ForwardedFromGroup(last'.message)
              /\ DashButNoNumber(last'.message.text) )
              => /\ last'.calls = <<>>
                 /\ ~last'.raised
                 /\ conv'[last'.key] = PORTAL_PRIVATE_GROUP
                 /\ user_data' = user_data ]_vars

C13_Witness ==
  /\ DispatchedIn(last, PORTAL_PRIVATE_GROUP)
  /\ last.message.text = TxtGroupId
  /\ Len(last.calls) = 2
  /\ last.calls[1].ok /\ last.calls[1].id = -200
  /\ last.calls[2].op = "get_chat_member" /\ ~last.calls[2].ok
  /\ ~last.raised
  /\ conv[last.key] = PORTAL_PRIVATE_GROUP

\* C14: when create_portal raises, the conversation ends and the draft is
\* deleted.
C14_RaisingCreateEnds ==
  (last.via = "dispatch" /\ last.created # <<>> /\ last.created[1].raised)
    => /\ conv[last.key] = END
       /\ ~HasDraft(user_data, last)

\* the text begins with '-'
BeginsWithDash(text) == text # None /\ Len(text) > 0 /\ text[1] = "-"

C16_SkipOnlyInWelcome ==
  [][ ( /\ last'.via = "dispatch"
        /\ last'.before \in {PORTAL_PUBLIC_CHANNEL, PORTAL_PRIVATE_GROUP}
        /\ last'.message.text = TxtSkip )
      => /\ conv'[last'.key] = last'.before
         /\ user_data' = user_data
         /\ last'.created = <<>> ]_vars

\* C17: a step changes the state of the event's conversation only, and only
\* along END -> PORTAL_PUBLIC_CHANNEL (the wizard starts) -> PORTAL_PRIVATE_GROUP
\* (after a verified channel) -> PORTAL_WELCOME_MESSAGE (after a verified
\* group) -> END, or to END by portal_cancel; a conversation in
\* PORTAL_WELCOME_MESSAGE has a verified channel and a verified group in its run.
C17_ForwardOnly ==
  [][ \A k \in ConvKeys :
        /\ conv'[k] # conv[k]
             => /\ k = last'.key
                /\ \/ conv[k] = END /\ conv'[k] = PORTAL_PUBLIC_CHANNEL
                      /\ last'.handler = "portal_setup_start"
                   \/ conv[k] = PORTAL_PUBLIC_CHANNEL /\ conv'[k] = PORTAL_PRIVATE_GROUP
                      /\ last'.handler = "portal_public_channel"
                      /\ last'.reply = "channel_verified"
                   \/ conv[k] = PORTAL_PRIVATE_GROUP /\ conv'[k] = PORTAL_WELCOME_MESSAGE
                      /\ last'.handler = "portal_private_group"
                      /\ last'.reply = "group_verified"
                   \/ conv[k] = PORTAL_WELCOME_MESSAGE /\ conv'[k] = END
                   \/ conv[k] # END /\ conv'[k] = END /\ last'.handler = "portal_cancel"
        /\ conv'[k] = PORTAL_WELCOME_MESSAGE
             => verified'[k].channel # 0 /\ verified'[k].group # 0 ]_vars

C17_Witness ==
  /\ DispatchedIn(last, PORTAL_PRIVATE_GROUP)
  /\ last.reply = "group_verified"
  /\ conv[last.key] = PORTAL_WELCOME_MESSAGE
  /\ verified[last.key] = [channel |-> -100123, group |-> -200]

ChannelFields == {"public_channel_id", "public_channel_username", "public_channel_title"}
GroupFields == {"private_group_id", "private_group_title"}

\* the draft of the conversation's user exists and holds all of the fields
DraftHolds(key, fields) ==
  /\ HasKey(user_data[key[2]], "portal_setup")
  /\ fields \subseteq DOMAIN user_data[key[2]]["portal_setup"]

\* C18: a draft with a group field holds the channel fields; a conversation in
\* PORTAL_PRIVATE_GROUP has a draft with the channel fields; a conversation
\* in PORTAL_WELCOME_MESSAGE has a draft with the channel and group fields.
C18_DraftFollowsState ==
  \A k \in ConvKeys :
    /\ ( /\ HasKey(user_data[k[2]], "portal_setup")
         /\ GroupFields \cap DOMAIN user_data[k[2]]["portal_setup"] # {} )
         => DraftHolds(k, ChannelFields)
    /\ conv[k] = PORTAL_PRIVATE_GROUP => DraftHolds(k, ChannelFields)
    /\ conv[k] = PORTAL_WELCOME_MESSAGE => DraftHolds(k, ChannelFields \cup GroupFields)

\* C19: a create_portal call receives the channel id and the group id that
\* were verified, the group after the channel, in the run of the conversation
\* that makes the call.
C19_CreateGetsVerifiedIds ==
  [][ last'.created # <<>>
      => /\ verified[last'.key].channel # 0
         /\ verified[last'.key].group # 0
         /\ last'.created[1].public_channel_id = verified[last'.key].channel
         /\ last'.created[1].private_group_id = verified[last'.key].group ]_vars

\* C20: an update of one user leaves the conversation state and user_data of
\* every other user unchanged, and a create_portal call carries the calling
\* user's id and the ids of that user's own draft.
C20_UsersIndependent ==
  [][ /\ \A u \in Users \ {last'.key[2]} :
           /\ user_data'[u] = user_data[u]
           /\ \A k \in ConvKeys : k[2] = u => conv'[k] = conv[k]
      /\ last'.created # <<>>
           => /\ last'.created[1].owner_id = last'.key[2]
              /\ DraftHolds(last'.key, ChannelFields \cup GroupFields)
              /\ last'.created[1].public_channel_id
                   = user_data[last'.key[2]]["portal_setup"]["public_channel_id"]
              /\ last'.created[1].private_group_id
                   = user_data[last'.key[2]]["portal_setup"]["private_group_id"] ]_vars

C20_Witness ==
  /\ last.key = <<22, 22>>
  /\ last.created # <<>>
  /\ last.created[1].owner_id = 22
  /\ last.created[1].private_group_id = -200
  /\ conv[<<11, 11>>] = PORTAL_WELCOME_MESSAGE
  /\ HasKey(user_data[11], "portal_setup")
  /\ user_data[11]["portal_setup"]["private_group_id"] = -100500

====
